---- MODULE Spec2Model ----
(***************************************************************************)
(* Model of the first-party logic of RAG_in_ngrok:                         *)
(*   - main.py: enhance_query_with_recency, SearchTool._run / _arun /      *)
(*     _format_results, and the FastAPI POST /chat handler;                *)
(*   - app.py: the Flask POST /chat handler.                               *)
(* Python strings on which the code works character by character (strip,   *)
(* split, lower, "in", concatenation) are sequences of one-character       *)
(* strings; strings the code only passes along are TLA+ strings.           *)
(***************************************************************************)
EXTENDS Integers, Sequences, FiniteSets, TLC

VARIABLES
    results,     \* the raw string handed to SearchTool._format_results
    formatted,   \* what _format_results returned for it
    fpc,         \* "build" while the raw string grows, "done" once formatted
    query,       \* the query handed to enhance_query_with_recency
    now,         \* the date of datetime.now(), [year, month, day]
    enhanced,    \* what enhance_query_with_recency returned
    epc,         \* "ready" before the call, "done" after it
    search_in,   \* the query the search backend was invoked with, if it was
    search_out,  \* what the search backend did: raised, or returned a value
    tool_out,    \* what SearchTool._run / _arun gave back to the agent
    tpc,         \* "ready" before the tool call, "run" / "arun" after it
    body,        \* the body of the last POST /chat request
    agent_calls, \* the agent_executor.invoke calls made for that request
    agent_out,   \* what the agent did when invoked for it, if it was
    response,    \* the HTTP answer to that request
    cpc          \* "idle", or the variant that served the last request

fvars == <<results, formatted, fpc>>
evars == <<query, now, enhanced, epc>>
tvars == <<search_in, search_out, tool_out, tpc>>
cvars == <<body, agent_calls, agent_out, response, cpc>>
vars == <<fvars, evars, tvars, cvars>>

None == <<"None">>

(***************************************************************************)
(* Python string primitives.                                               *)
(***************************************************************************)

\* str.isspace() for one character (the ASCII part of Python's whitespace set).
Whitespace == {" ", "\t", "\n", "\r", "\f"}

RECURSIVE lstrip(_)
lstrip(s) ==
    IF s # <<>> /\ Head(s) \in Whitespace THEN lstrip(Tail(s)) ELSE s

RECURSIVE rstrip(_)
rstrip(s) ==
    IF s # <<>> /\ s[Len(s)] \in Whitespace
    THEN rstrip(SubSeq(s, 1, Len(s) - 1))
    ELSE s

\* str.strip()
strip(s) == rstrip(lstrip(s))

\* Index of the first occurrence of character c in s, 0 when there is none.
RECURSIVE find(_, _, _)
find(s, c, from) ==
    IF from > Len(s) THEN 0
    ELSE IF s[from] = c THEN from
    ELSE find(s, c, from + 1)

\* str.split(sep, maxsplit) for a one-character separator; maxsplit = -1 is
\* "no limit". Empty parts are kept.
RECURSIVE split(_, _, _)
split(s, sep, maxsplit) ==
    LET p == find(s, sep, 1) IN
    IF maxsplit = 0 \/ p = 0 THEN <<s>>
    ELSE <<SubSeq(s, 1, p - 1)>> \o
         split(SubSeq(s, p + 1, Len(s)), sep,
               IF maxsplit < 0 THEN maxsplit ELSE maxsplit - 1)

\* sep.join(parts)
RECURSIVE join(_, _)
join(sep, parts) ==
    IF parts = <<>> THEN <<>>
    ELSE IF Len(parts) = 1 THEN parts[1]
    ELSE parts[1] \o sep \o join(sep, Tail(parts))

Digits == <<"0", "1", "2", "3", "4", "5", "6", "7", "8", "9">>

\* str(n) for an integer n >= 0.
RECURSIVE IntStr(_)
IntStr(n) ==
    IF n < 10 THEN <<Digits[n + 1]>>
    ELSE IntStr(n \div 10) \o <<Digits[(n % 10) + 1]>>

\* seq[:n]
Take(seq, n) == SubSeq(seq, 1, IF Len(seq) < n THEN Len(seq) ELSE n)

(***************************************************************************)
(* enhance_query_with_recency                                              *)
(***************************************************************************)

UpperLetters ==
    <<"A", "B", "C", "D", "E", "F", "G", "H", "I", "J", "K", "L", "M",
      "N", "O", "P", "Q", "R", "S", "T", "U", "V", "W", "X", "Y", "Z">>

LowerLetters ==
    <<"a", "b", "c", "d", "e", "f", "g", "h", "i", "j", "k", "l", "m",
      "n", "o", "p", "q", "r", "s", "t", "u", "v", "w", "x", "y", "z">>

\* str.lower(), on ASCII text.
lower(s) ==
    [i \in 1..Len(s) |->
        IF \E n \in 1..26 : UpperLetters[n] = s[i]
        THEN LowerLetters[CHOOSE n \in 1..26 : UpperLetters[n] = s[i]]
        ELSE s[i]]

\* Contains with the comparison one character short of the keyword.
Contains_OneShort(s, k) ==
    \E i \in 1..(Len(s) - Len(k) + 2) : SubSeq(s, i, i + Len(k) - 2) = SubSeq(k, 1, Len(k) - 1)

\* k in s
Contains(s, k) ==
    \E i \in 1..(Len(s) - Len(k) + 1) : SubSeq(s, i, i + Len(k) - 1) = k

time_keywords ==
    << <<"t", "o", "d", "a", "y">>,
       <<"n", "o", "w">>,
       <<"l", "a", "t", "e", "s", "t">>,
       <<"r", "e", "c", "e", "n", "t">>,
       <<"c", "u", "r", "r", "e", "n", "t">>,
       <<"n", "e", "w", "s">>,
       <<"u", "p", "d", "a", "t", "e">>,
       <<"h", "a", "p", "p", "e", "n", "e", "d">>,
       <<"h", "a", "p", "p", "e", "n", "i", "n", "g">>,
       <<"s", "c", "o", "r", "e">>,
       <<"p", "r", "i", "c", "e">>,
       <<"w", "e", "a", "t", "h", "e", "r">>,
       <<"s", "t", "o", "c", "k">> >>

\* date.toordinal(): days since 0001-01-01, that day being 1.
IsLeapYear(y) == y % 4 = 0 /\ (y % 100 # 0 \/ y % 400 = 0)

DaysInMonth(y, m) ==
    IF m = 2 THEN (IF IsLeapYear(y) THEN 29 ELSE 28)
    ELSE IF m \in {4, 6, 9, 11} THEN 30 ELSE 31

RECURSIVE DaysBeforeMonth(_, _)
DaysBeforeMonth(y, m) ==
    IF m = 1 THEN 0 ELSE DaysBeforeMonth(y, m - 1) + DaysInMonth(y, m - 1)

toordinal(d) ==
    LET y == d.year - 1 IN
    y * 365 + (y \div 4) - (y \div 100) + (y \div 400)
    + DaysBeforeMonth(d.year, d.month) + d.day

\* date.fromordinal(n): the 400/100/4/1-year cycle decomposition.
fromordinal(ord) ==
    LET n0 == ord - 1
        n400 == n0 \div 146097
        r400 == n0 % 146097
        n100 == r400 \div 36524
        r100 == r400 % 36524
        n4 == r100 \div 1461
        r4 == r100 % 1461
        n1 == r4 \div 365
        n == r4 % 365
        year == n400 * 400 + 1 + n100 * 100 + n4 * 4 + n1
        leapyear == n1 = 3 /\ (n4 # 24 \/ n100 = 3)
        guess == (n + 50) \div 32
        before(m) == DaysBeforeMonth(IF leapyear THEN 4 ELSE 1, m)
        month == IF before(guess) > n THEN guess - 1 ELSE guess
    IN  IF n1 = 4 \/ n100 = 4
        THEN [year |-> year - 1, month |-> 12, day |-> 31]
        ELSE [year |-> year, month |-> month, day |-> n - before(month) + 1]

\* now - timedelta(days=n)
MinusDays(d, n) == fromordinal(toordinal(d) - n)

\* "%0<w>d" % n
RECURSIVE ZeroPad(_, _)
ZeroPad(n, w) ==
    IF Len(IntStr(n)) >= w THEN IntStr(n)
    ELSE <<"0">> \o ZeroPad(n, w - 1)

\* strftime('%Y-%m-%d'), for the years 1000..9999
strftime(d) ==
    ZeroPad(d.year, 4) \o <<"-">> \o ZeroPad(d.month, 2)
    \o <<"-">> \o ZeroPad(d.day, 2)

After == <<" ", "a", "f", "t", "e", "r", ":">>

\* The lookback of timedelta(days=7).
RecencyDays == 7

\* enhance_query_with_recency building its result on lower_query.
enhance_query_Lowered(q, today) ==
    LET lower_query == lower(q) IN
    IF \E n \in 1..Len(time_keywords) : Contains(lower_query, time_keywords[n])
    THEN lower_query \o After \o strftime(MinusDays(today, RecencyDays))
    ELSE q

enhance_query_with_recency(q, today) ==
    LET lower_query == lower(q) IN
    IF \E n \in 1..Len(time_keywords) : Contains(lower_query, time_keywords[n])
    THEN q \o After \o strftime(MinusDays(today, RecencyDays))
    ELSE q

(***************************************************************************)
(* SearchTool._format_results                                              *)
(***************************************************************************)

NoResultsFound ==
    <<"N", "o", " ", "r", "e", "s", "u", "l", "t", "s", " ",
      "f", "o", "u", "n", "d", ".">>

LatestWebResults ==
    <<"L", "a", "t", "e", "s", "t", " ", "w", "e", "b", " ",
      "r", "e", "s", "u", "l", "t", "s", ":", "\n">>

LinkLabel == <<" ", " ", " ", "L", "i", "n", "k", ":", " ">>

Indent == <<" ", " ", " ">>

\* The cap of the slice results.split("\n")[:6].
TopN == 6

\* FormatEntry keeping the whole of parts[0] as the title.
FormatEntry_KeepBracket(i, result) ==
    LET parts == split(result, "]", 2) IN
    IF Len(parts) < 3
    THEN IntStr(i) \o <<".", " ">> \o result \o <<"\n">>
    ELSE IntStr(i) \o <<".", " ">> \o parts[1] \o <<"\n">>
         \o LinkLabel \o parts[2] \o <<"\n">>
         \o Indent \o strip(parts[3]) \o <<"\n">>

\* FormatEntry trimming the entry it falls back to.
FormatEntry_StripFallback(i, result) ==
    LET parts == split(result, "]", 2) IN
    IF Len(parts) < 3
    THEN IntStr(i) \o <<".", " ">> \o strip(result) \o <<"\n">>
    ELSE IntStr(i) \o <<".", " ">> \o SubSeq(parts[1], 2, Len(parts[1]))
         \o <<"\n">> \o LinkLabel \o parts[2] \o <<"\n">>
         \o Indent \o strip(parts[3]) \o <<"\n">>

\* The body of the loop for one entry that is not blank: the text appended
\* to `formatted`.
FormatEntry(i, result) ==
    LET parts == split(result, "]", 2) IN
    IF Len(parts) < 3
    THEN IntStr(i) \o <<".", " ">> \o result \o <<"\n">>
    ELSE LET title == SubSeq(parts[1], 2, Len(parts[1]))
             url == parts[2]
             snippet == parts[3]
         IN  IntStr(i) \o <<".", " ">> \o title \o <<"\n">>
             \o LinkLabel \o url \o <<"\n">>
             \o Indent \o strip(snippet) \o <<"\n">>

\* for i, result in enumerate(lines, i): blank entries are passed over
\* (continue), the counter i advances for every entry of the slice.
RECURSIVE FormatLoop(_, _)
FormatLoop(lines, i) ==
    IF lines = <<>> THEN <<>>
    ELSE IF strip(Head(lines)) = <<>> THEN FormatLoop(Tail(lines), i + 1)
    ELSE <<FormatEntry(i, Head(lines))>> \o FormatLoop(Tail(lines), i + 1)

\* TopEntries without the [:6] slice.
TopEntries_NoSlice(raw) == split(raw, "\n", -1)

\* The entries the loop runs over.
TopEntries(raw) == Take(split(raw, "\n", -1), TopN)

_format_results(raw) ==
    IF strip(raw) = <<>> THEN NoResultsFound
    ELSE join(<<"\n">>, <<LatestWebResults>> \o FormatLoop(TopEntries(raw), 1))

(***************************************************************************)
(* SearchTool._run and SearchTool._arun                                    *)
(***************************************************************************)

SearchFailed ==
    <<"S", "e", "a", "r", "c", "h", " ", "f", "a", "i", "l", "e", "d", ":", " ">>

\* str(e) of the AttributeError of results.strip() on a value that is no str.
NoStripAttribute ==
    <<"'", "l", "i", "s", "t", "'", " ", "o", "b", "j", "e", "c", "t", " ", "h", "a", "s", " ", "n", "o", " ", "a", "t", "t", "r", "i", "b", "u", "t", "e", " ", "'", "s", "t", "r", "i", "p", "'">>

\* A call that ended by returning value v, or by raising an exception
\* whose str() is text.
Returned(v) == [raised |-> FALSE, value |-> v, text |-> <<>>]
Raised(text) == [raised |-> TRUE, value |-> None, text |-> text]

\* self._format_results(results) as called from the tool: a value that is
\* no str has no strip().
CallFormat(out) ==
    IF out.kind = "str" THEN Returned(_format_results(out.value))
    ELSE Raised(NoStripAttribute)

\* _run with the formatter called after the try block.
_run_FormatUnguarded(q, today, backend) ==
    LET enhanced_query == enhance_query_with_recency(q, today) IN
    [called_with |-> enhanced_query,
     end |-> IF backend.kind = "raise"
             THEN Returned(SearchFailed \o backend.text)
             ELSE CallFormat(backend)]

\* The blocking path. `backend` is what search.invoke does when called:
\* kind "raise" (text = str(e)), kind "str" (it returns the string value) or
\* kind "list" (it returns a list, holding the one string value).
\* The result holds what the backend was called with and how the method ended.
\* (The print before the try writes to stdout and is taken not to fail; the
\* enhancer, given a str, has no failing path.)
_run(q, today, backend) ==
    LET enhanced_query == enhance_query_with_recency(q, today)
        formatting == CallFormat(backend)
    IN  [called_with |-> enhanced_query,
         end |-> IF backend.kind = "raise"
                 THEN Returned(SearchFailed \o backend.text)
                 ELSE IF formatting.raised
                 THEN Returned(SearchFailed \o formatting.text)
                 ELSE Returned(formatting.value)]

\* The async path, around search.ainvoke.
_arun(q, today, backend) ==
    LET enhanced_query == enhance_query_with_recency(q, today)
        formatting == CallFormat(backend)
    IN  [called_with |-> enhanced_query,
         end |-> IF backend.kind = "raise"
                 THEN Returned(SearchFailed \o backend.text)
                 ELSE IF formatting.raised
                 THEN Returned(SearchFailed \o formatting.text)
                 ELSE Returned(formatting.value)]

(***************************************************************************)
(* POST /chat                                                              *)
(*                                                                         *)
(* A request body is [decodable, data]: whether it is JSON at all, and the *)
(* JSON object as a function from its keys. The agent is the external      *)
(* agent_executor: what one invoke call does is [kind, text, messages]:    *)
(* kind "raise" with text = str(e), or kind "return" with the "messages"   *)
(* of the state it returns, each message a content [type, v].              *)
(***************************************************************************)

\* dict.get(key, default)
Get(data, key, default) == IF key \in DOMAIN data THEN data[key] ELSE default

\* str(content): a str is itself; a list is shown as its repr.
ListRepr(v) ==
    CASE v = "Hello there!" -> "['Hello there!']"
      [] v = "" -> "['']"
      [] OTHER -> "[...]"

str(content) == IF content.type = "str" THEN content.v ELSE ListRepr(content.v)

\* agent_executor.invoke({"messages": [("user", query)]}, config=config)
Invocation(q, thread_id) ==
    [messages |-> << <<"user", q>> >>,
     config |-> [configurable |-> [thread_id |-> thread_id]]]

\* app.py chat(): the calls it makes to the agent and the answer it returns.
app_chat(request, agent) ==
    IF ~request.decodable
    THEN \* request.json raises inside the try
         [calls |-> <<>>, status |-> 500,
          payload |-> [error |-> "400 Bad Request"]]
    ELSE
    LET data == request.data
        query0 == Get(data, "query", None)
        thread_id == Get(data, "thread_id", "default_thread")
        call == Invocation(strip(query0), thread_id)
    IN  IF query0 = None \/ query0 = <<>>
        THEN [calls |-> <<>>, status |-> 400,
              payload |-> [error |-> "No query provided"]]
        ELSE IF agent.kind = "raise"
        THEN [calls |-> <<call>>, status |-> 500,
              payload |-> [error |-> agent.text]]
        ELSE IF agent.messages = <<>>
        THEN \* response["messages"][-1] raises IndexError
             [calls |-> <<call>>, status |-> 500,
              payload |-> [error |-> "list index out of range"]]
        ELSE [calls |-> <<call>>, status |-> 200,
              payload |-> [response |-> agent.messages[Len(agent.messages)],
                           thread_id |-> thread_id]]

\* main.py ChatRequest: the body passes validation when it is a JSON object
\* with a "query" (thread_id may be absent).
ChatRequestValid(request) ==
    request.decodable /\ "query" \in DOMAIN request.data

\* main.py ChatRequest(**data): thread_id defaults to "default_thread".
ChatRequest(data) ==
    [query |-> data["query"],
     thread_id |-> Get(data, "thread_id", "default_thread")]

\* main_try handing request.query to the agent as it came.
main_try_NoStrip(request, agent) ==
    LET q == strip(request.query)
        call == Invocation(request.query, request.thread_id)
    IN  IF q = <<>>
        THEN [calls |-> <<>>, end |-> "HTTPException", status_code |-> 400,
              detail |-> "No query provided"]
        ELSE IF agent.kind = "raise"
        THEN [calls |-> <<call>>, end |-> "Exception", text |-> agent.text]
        ELSE IF agent.messages = <<>>
        THEN [calls |-> <<call>>, end |-> "Exception",
              text |-> "list index out of range"]
        ELSE [calls |-> <<call>>, end |-> "return",
              value |-> [response |->
                             [type |-> "str",
                              v |-> str(agent.messages[Len(agent.messages)])],
                         thread_id |-> request.thread_id]]

\* The try block of main.py chat(): the calls it makes, and how it ends:
\* "return" (a ChatResponse), "HTTPException" or "Exception".
main_try(request, agent) ==
    LET q == strip(request.query)
        call == Invocation(q, request.thread_id)
    IN  IF q = <<>>
        THEN [calls |-> <<>>, end |-> "HTTPException", status_code |-> 400,
              detail |-> "No query provided"]
        ELSE IF agent.kind = "raise"
        THEN [calls |-> <<call>>, end |-> "Exception", text |-> agent.text]
        ELSE IF agent.messages = <<>>
        THEN [calls |-> <<call>>, end |-> "Exception",
              text |-> "list index out of range"]
        ELSE [calls |-> <<call>>, end |-> "return",
              value |-> [response |->
                             [type |-> "str",
                              v |-> str(agent.messages[Len(agent.messages)])],
                         thread_id |-> request.thread_id]]

\* main_chat without the "except HTTPException: raise" clause: the 400 falls
\* to "except Exception", str(e) of an HTTPException being "400: <detail>".
main_chat_NoReraise(request, agent) ==
    LET t == main_try(request, agent) IN
    IF t.end = "HTTPException"
    THEN [calls |-> t.calls, end |-> "HTTPException", status_code |-> 500,
          detail |-> "400: No query provided"]
    ELSE IF t.end = "Exception"
    THEN [calls |-> t.calls, end |-> "HTTPException", status_code |-> 500,
          detail |-> t.text]
    ELSE t

\* main.py chat(): the try block under its two except clauses. It ends by
\* returning a ChatResponse or by raising an HTTPException.
main_chat(request, agent) ==
    LET t == main_try(request, agent) IN
    IF t.end = "HTTPException"
    THEN t    \* except HTTPException: raise
    ELSE IF t.end = "Exception"
    THEN [calls |-> t.calls, end |-> "HTTPException", status_code |-> 500,
          detail |-> t.text]
    ELSE t

\* The POST /chat route of main.py: the body is validated against
\* ChatRequest before chat() runs (422 when it fails), and an HTTPException
\* out of chat() is answered with its status code and detail.
main_route(request, agent) ==
    IF ~ChatRequestValid(request)
    THEN [calls |-> <<>>, status |-> 422,
          payload |-> [detail |-> "validation error"]]
    ELSE LET h == main_chat(ChatRequest(request.data), agent) IN
         IF h.end = "return"
         THEN [calls |-> h.calls, status |-> 200, payload |-> h.value]
         ELSE [calls |-> h.calls, status |-> h.status_code,
               payload |-> [detail |-> h.detail]]

(***************************************************************************)
(* Inputs of the formatter: raw strings made of newline-separated entries. *)
(***************************************************************************)

MaxLines == 7

EntryShapes ==
    { <<>>,                                                      \* empty
      <<" ">>,                                                   \* whitespace only
      <<"[", "T", "b", "]", "u", "]", " ", "s", "]", "d", " ">>, \* [Tb]u] s]d
      <<" ", "x", "]", "y">> }                                   \* one closing bracket

NumLines(raw) == Len(split(raw, "\n", -1))

\* The enhancer at rest, for the specifications that are not about it.
EnhancerIdle ==
    /\ query = <<>>
    /\ now = [year |-> 2026, month |-> 1, day |-> 1]
    /\ enhanced = None
    /\ epc = "off"

\* The formatter at rest, for the specifications that are not about it.
FormatterIdle ==
    /\ results = <<>>
    /\ formatted = None
    /\ fpc = "off"

\* The search tool at rest, for the specifications that are not about it.
ToolIdle ==
    /\ search_in = None
    /\ search_out = None
    /\ tool_out = None
    /\ tpc = "off"

NoBody == [decodable |-> FALSE, data |-> <<>>]
NoCall == [kind |-> "none", text |-> "", messages |-> <<>>]
NoResponse == [status |-> 0, payload |-> <<>>]

\* No request served yet.
ChatIdle ==
    /\ body = NoBody
    /\ agent_calls = <<>>
    /\ agent_out = NoCall
    /\ response = NoResponse
    /\ cpc = "idle"

InitFormat ==
    /\ results \in EntryShapes
    /\ formatted = None
    /\ fpc = "build"
    /\ EnhancerIdle
    /\ ToolIdle
    /\ ChatIdle

\* The search backend's text grows by one more entry.
AppendEntry ==
    /\ fpc = "build"
    /\ NumLines(results) < MaxLines
    /\ \E e \in EntryShapes : results' = results \o <<"\n">> \o e
    /\ UNCHANGED <<formatted, fpc, evars, tvars, cvars>>

\* SearchTool.__format_results(results)
FormatResults ==
    /\ fpc = "build"
    /\ formatted' = _format_results(results)
    /\ fpc' = "done"
    /\ UNCHANGED <<results, evars, tvars, cvars>>

NextFormat == AppendEntry \/ FormatResults

SpecFormat == InitFormat /\ [][NextFormat]_vars

(***************************************************************************)
(* Inputs of the enhancer: a word between a prefix and a suffix, and the   *)
(* day the call is made.                                                   *)
(***************************************************************************)

Prefixes == { <<>>, <<"k">>, <<"N">>, <<"T", "h", "e", " ">> }

Words ==
    { <<"t", "o", "d", "a", "y">>,
      <<"n", "o", "w">>,
      <<"l", "a", "t", "e", "s", "t">>,
      <<"r", "e", "c", "e", "n", "t">>,
      <<"c", "u", "r", "r", "e", "n", "t">>,
      <<"n", "e", "w", "s">>,
      <<"u", "p", "d", "a", "t", "e">>,
      <<"h", "a", "p", "p", "e", "n", "e", "d">>,
      <<"h", "a", "p", "p", "e", "n", "i", "n", "g">>,
      <<"s", "c", "o", "r", "e">>,
      <<"p", "r", "i", "c", "e">>,
      <<"w", "e", "a", "t", "h", "e", "r">>,
      <<"s", "t", "o", "c", "k">>,
      <<"N", "O", "W">>,
      <<"L", "a", "t", "e", "s", "t">>,
      <<"W", "e", "A", "t", "H", "e", "R">>,
      <<"s", "T", "O", "C", "k">>,
      <<"o", "w">>,
      <<"c", "a", "t">>,
      <<"n", "o", " ", "w">>,
      <<"p", "r", "i", "c">>,
      <<"n", "w", "o">>,
      <<>> }

Suffixes == { <<>>, <<"S">>, <<" ", "?">> }

Queries == {p \o w \o x : p \in Prefixes, w \in Words, x \in Suffixes}

Years == {2026, 2028, 2100}

NowDates ==
    {d \in [year : Years, month : 1..12, day : {3, 8, 29}] :
        d.day <= DaysInMonth(d.year, d.month)}

InitEnhance ==
    /\ query \in Queries
    /\ now \in NowDates
    /\ enhanced = None
    /\ epc = "ready"
    /\ FormatterIdle
    /\ ToolIdle
    /\ ChatIdle

\* enhance_query_with_recency(query), called on the day `now`
Enhance ==
    /\ epc = "ready"
    /\ enhanced' = enhance_query_with_recency(query, now)
    /\ epc' = "done"
    /\ UNCHANGED <<query, now, fvars, tvars, cvars>>

NextEnhance == Enhance

SpecEnhance == InitEnhance /\ [][NextEnhance]_vars

(***************************************************************************)
(* The agent framework calling the search tool: a query, the day, and what *)
(* the search backend does when invoked.                                   *)
(***************************************************************************)

ToolQueries ==
    {p \o w : p \in Prefixes,
              w \in { <<"n", "e", "w", "s">>, <<"S", "c", "o", "r", "e">>,
                      <<"c", "a", "t">>, <<"o", "w">> }}

ToolDates == {d \in NowDates : d.year = 2028 /\ d.month \in {1, 3}}

BackendTexts ==
    { <<>>,
      <<"[", "T", "b", "]", "u", "]", " ", "s", "]", "d", " ">>,
      <<" ", "x", "]", "y", "\n", "\n", "[", "T", "]", "u", "]", "s">> }

ErrorTexts == { <<>>, <<"t", "i", "m", "e", "o", "u", "t">> }

BackendOutcomes ==
    {[kind |-> "raise", value |-> None, text |-> e] : e \in ErrorTexts}
    \cup {[kind |-> "str", value |-> r, text |-> <<>>] : r \in BackendTexts}
    \cup {[kind |-> "list", value |-> r, text |-> <<>>] : r \in BackendTexts}

InitTool ==
    /\ query \in ToolQueries
    /\ now \in ToolDates
    /\ enhanced = None
    /\ epc = "off"
    /\ search_in = None
    /\ search_out = None
    /\ tool_out = None
    /\ tpc = "ready"
    /\ FormatterIdle
    /\ ChatIdle

\* The framework calls SearchTool._run(query).
Run ==
    /\ tpc = "ready"
    /\ \E backend \in BackendOutcomes :
          LET call == _run(query, now, backend) IN
          /\ search_in' = call.called_with
          /\ search_out' = backend
          /\ tool_out' = call.end
    /\ tpc' = "run"
    /\ UNCHANGED <<fvars, evars, cvars>>

\* The framework awaits SearchTool._arun(query).
Arun ==
    /\ tpc = "ready"
    /\ \E backend \in BackendOutcomes :
          LET call == _arun(query, now, backend) IN
          /\ search_in' = call.called_with
          /\ search_out' = backend
          /\ tool_out' = call.end
    /\ tpc' = "arun"
    /\ UNCHANGED <<fvars, evars, cvars>>

NextTool == Run \/ Arun

SpecTool == InitTool /\ [][NextTool]_vars

(***************************************************************************)
(* Clients posting to /chat, and the agent behind the handler.             *)
(***************************************************************************)

MaxMessages == 2

QueryTexts ==
    { <<>>, <<" ">>, <<"\t", " ">>,
      <<"H", "e", "l", "l", "o">>,
      <<" ", "H", "i", " ", "y", "o", "u", "\n">> }

ThreadIds == {"t1", ""}

\* The JSON objects a client sends: "query" and "thread_id" are each
\* present or absent.
JsonObjects ==
    {<<>>}
    \cup {[k \in {"query"} |-> q] : q \in QueryTexts}
    \cup {[k \in {"thread_id"} |-> t] : t \in ThreadIds}
    \cup {[k \in {"query", "thread_id"} |-> IF k = "query" THEN qt[1] ELSE qt[2]] :
             qt \in QueryTexts \X ThreadIds}

Bodies ==
    {[decodable |-> TRUE, data |-> d] : d \in JsonObjects} \cup {NoBody}

Contents ==
    {[type |-> "str", v |-> "Hello there!"], [type |-> "str", v |-> ""],
     [type |-> "list", v |-> "Hello there!"]}

MessageLists == UNION {[1..n -> Contents] : n \in 0..MaxMessages}

AgentOutcomes ==
    {[kind |-> "raise", text |-> e, messages |-> <<>>] :
         e \in {"rate limit", ""}}
    \cup {[kind |-> "return", text |-> "", messages |-> m] : m \in MessageLists}

InitChat ==
    /\ ChatIdle
    /\ FormatterIdle
    /\ EnhancerIdle
    /\ ToolIdle

\* A POST /chat served by app.py.
PostChatApp ==
    \E b \in Bodies, agent \in AgentOutcomes :
        LET r == app_chat(b, agent) IN
        /\ body' = b
        /\ agent_calls' = r.calls
        /\ agent_out' = IF r.calls = <<>> THEN NoCall ELSE agent
        /\ response' = [status |-> r.status, payload |-> r.payload]
        /\ cpc' = "app"
        /\ UNCHANGED <<fvars, evars, tvars>>

\* A POST /chat served by main.py.
PostChatMain ==
    \E b \in Bodies, agent \in AgentOutcomes :
        LET r == main_route(b, agent) IN
        /\ body' = b
        /\ agent_calls' = r.calls
        /\ agent_out' = IF r.calls = <<>> THEN NoCall ELSE agent
        /\ response' = [status |-> r.status, payload |-> r.payload]
        /\ cpc' = "main"
        /\ UNCHANGED <<fvars, evars, tvars>>

NextChat == PostChatApp \/ PostChatMain

SpecChat == InitChat /\ [][NextChat]_vars

(***************************************************************************)
(* Reading an input and an output of the formatter, for the properties.    *)
(***************************************************************************)

Min(a, b) == IF a < b THEN a ELSE b

Count(s, c) == Cardinality({i \in 1..Len(s) : s[i] = c})

IsBlank(s) == \A i \in 1..Len(s) : s[i] \in Whitespace

\* The k-th closing bracket of an entry that has at least k of them.
Bracket(l, k) ==
    CHOOSE i \in 1..Len(l) :
        l[i] = "]" /\ Cardinality({j \in 1..i : l[j] = "]"}) = k

\* s without its leading and trailing whitespace, by positions.
Trimmed(s) ==
    LET solid == {i \in 1..Len(s) : s[i] \notin Whitespace} IN
    IF solid = {} THEN <<>>
    ELSE SubSeq(s, CHOOSE a \in solid : \A b \in solid : a <= b,
                   CHOOSE a \in solid : \A b \in solid : a >= b)

\* [title]link]snippet
WellShaped(l) == ~IsBlank(l) /\ l[1] = "[" /\ Count(l, "]") >= 2

TitleOf(l) == SubSeq(l, 2, Bracket(l, 1) - 1)
LinkOf(l) == SubSeq(l, Bracket(l, 1) + 1, Bracket(l, 2) - 1)
SnippetOf(l) == Trimmed(SubSeq(l, Bracket(l, 2) + 1, Len(l)))

\* The item the formatter is to show for well-shaped entry l under number n.
ItemOf(n, l) ==
    IntStr(n) \o <<".", " ">> \o TitleOf(l) \o <<"\n">>
    \o LinkLabel \o LinkOf(l) \o <<"\n">>
    \o Indent \o SnippetOf(l) \o <<"\n">>

InputLines == split(results, "\n", -1)

\* The lines of an output that open a numbered item: those starting with a
\* digit (the header starts with a letter, link and snippet lines with blanks).
IsDigit(c) == \E d \in 1..10 : Digits[d] = c
StartsItem(l) == l # <<>> /\ IsDigit(l[1])
ItemHeads(out) == SelectSeq(split(out, "\n", -1), StartsItem)
NumItems(out) == Len(ItemHeads(out))

StartsWith(s, p) == Len(s) >= Len(p) /\ SubSeq(s, 1, Len(p)) = p

IsString(s) == s # None /\ \A i \in 1..Len(s) : s[i] \in STRING

(***************************************************************************)
(* Properties of SearchTool._format_results (checked under SpecFormat).    *)
(***************************************************************************)

\* The listing expected for well-shaped entries k..last, each item following
\* a joining newline.
RECURSIVE Listing(_, _, _)
Listing(lines, k, last) ==
    IF k > last THEN <<>>
    ELSE <<"\n">> \o ItemOf(k, lines[k]) \o Listing(lines, k + 1, last)

AllWellShaped ==
    LET lines == InputLines IN \A k \in 1..Len(lines) : WellShaped(lines[k])

\* C7: when every line of the input is a non-blank [title]link]snippet entry,
\* the output is the header followed by one item per entry of the first six,
\* in input order, numbered 1, 2, 3, ..., each with the title less its leading
\* bracket, the link, and the snippet trimmed.
C7_WellShapedEntriesListed ==
    (fpc = "done" /\ AllWellShaped) =>
        LET lines == InputLines IN
        formatted = LatestWebResults \o Listing(lines, 1, Min(Len(lines), 6))

C7_Witness ==
    fpc = "done" /\ AllWellShaped /\ Len(InputLines) > 6 /\ NumItems(formatted) = 6

Malformed(l) == ~IsBlank(l) /\ Count(l, "]") < 2

HeadText(l) == IF Count(l, "]") >= 2 THEN TitleOf(l) ELSE l
ItemText(head) == SubSeq(head, find(head, " ", 1) + 1, Len(head))

NonBlank(l) == ~IsBlank(l)

TextsOf(heads) == [j \in 1..Len(heads) |-> ItemText(heads[j])]
HeadTextsOf(lines) == [j \in 1..Len(lines) |-> HeadText(lines[j])]

\* C9: the output never has more than six numbered items, and its items are
\* those of the non-blank entries among the first six lines, in input order.
C9_AtMostSixItems ==
    fpc = "done" =>
        /\ NumItems(formatted) <= 6
        /\ TextsOf(ItemHeads(formatted))
             = HeadTextsOf(SelectSeq(Take(InputLines, 6), NonBlank))

C9_Witness ==
    /\ fpc = "done"
    /\ Len(SelectSeq(InputLines, NonBlank)) > 6
    /\ NumItems(formatted) = 6

\* C10: blank lines do not count toward the cap: the output has one numbered
\* item for each of the first six non-blank lines of the input.
C10_BlankLinesNotCounted ==
    fpc = "done" =>
        NumItems(formatted) = Min(6, Len(SelectSeq(InputLines, NonBlank)))

(***************************************************************************)
(* Properties of enhance_query_with_recency (checked under SpecEnhance).   *)
(***************************************************************************)

\* Two characters that are the same letter, whatever their case.
SameLetter(a, b) ==
    \/ a = b
    \/ \E n \in 1..26 : {a, b} = {UpperLetters[n], LowerLetters[n]}

\* Some time-sensitive keyword occurs in q, letter case ignored.
HasTimeKeyword(q) ==
    \E n \in 1..Len(time_keywords) :
        LET k == time_keywords[n] IN
        \E i \in 0..(Len(q) - Len(k)) :
            \A j \in 1..Len(k) : SameLetter(q[i + j], k[j])

DigitValue(c) == (CHOOSE d \in 1..10 : Digits[d] = c) - 1

RECURSIVE Number(_)
Number(s) ==
    IF s = <<>> THEN 0
    ELSE 10 * Number(SubSeq(s, 1, Len(s) - 1)) + DigitValue(s[Len(s)])

\* s reads YYYY-MM-DD
IsIsoDate(s) ==
    /\ Len(s) = 10
    /\ s[5] = "-" /\ s[8] = "-"
    /\ \A i \in {1, 2, 3, 4, 6, 7, 9, 10} : IsDigit(s[i])

ParseIsoDate(s) ==
    [year |-> Number(SubSeq(s, 1, 4)),
     month |-> Number(SubSeq(s, 6, 7)),
     day |-> Number(SubSeq(s, 9, 10))]

\* The calendar day after d.
NextDay(d) ==
    IF d.day < DaysInMonth(d.year, d.month)
    THEN [d EXCEPT !.day = d.day + 1]
    ELSE IF d.month < 12
    THEN [d EXCEPT !.month = d.month + 1, !.day = 1]
    ELSE [year |-> d.year + 1, month |-> 1, day |-> 1]

RECURSIVE DaysLater(_, _)
DaysLater(d, n) == IF n = 0 THEN d ELSE DaysLater(NextDay(d), n - 1)

\* C5: for a query holding a time-sensitive keyword in any letter case, the
\* result is the query itself, casing untouched, then " after:", then the
\* YYYY-MM-DD date of the calendar day seven days before the call.
C5_KeywordAppendsRecency ==
    (epc = "done" /\ HasTimeKeyword(query)) =>
        LET n == Len(query)
            date == SubSeq(enhanced, n + 8, Len(enhanced))
        IN  /\ Len(enhanced) = n + 17
            /\ SubSeq(enhanced, 1, n) = query
            /\ SubSeq(enhanced, n + 1, n + 7) = After
            /\ IsIsoDate(date)
            /\ ParseIsoDate(date).month \in 1..12
            /\ DaysLater(ParseIsoDate(date), 7) = now

C5_Witness ==
    /\ epc = "done"
    /\ HasTimeKeyword(query)
    /\ query # lower(query)
    /\ now.day = 3 /\ now.month = 3 /\ now.year = 2028
    /\ Len(enhanced) > Len(query)

\* C6: a query holding no time-sensitive keyword comes back unchanged.
C6_NoKeywordIdentity ==
    (epc = "done" /\ ~HasTimeKeyword(query)) => enhanced = query

C6_Witness ==
    epc = "done" /\ ~HasTimeKeyword(query) /\ query # <<>> /\ enhanced = query

(***************************************************************************)
(* Properties of SearchTool._run / _arun (checked under SpecTool).         *)
(***************************************************************************)

\* C4: on either path the tool ends by returning a string, never by raising;
\* when the backend raised, or the formatter raised on what the backend
\* returned, the string is "Search failed: " and the exception's text;
\* otherwise the backend was called with the enhanced query and the string is
\* the formatter's output for what the backend returned.
C4_ToolNeverRaises ==
    tpc \in {"run", "arun"} =>
        /\ ~tool_out.raised
        /\ IsString(tool_out.value)
        /\ search_in = enhance_query_with_recency(query, now)
        /\ search_out.kind = "raise" =>
               tool_out.value = SearchFailed \o search_out.text
        /\ search_out.kind = "list" =>
               tool_out.value = SearchFailed \o NoStripAttribute
        /\ search_out.kind = "str" =>
               tool_out.value = _format_results(search_out.value)

C4_Witness ==
    /\ tpc = "arun"
    /\ search_out.kind = "list"
    /\ search_in # query
    /\ StartsWith(tool_out.value, SearchFailed)

(***************************************************************************)
(* Properties of POST /chat (checked under SpecChat).                      *)
(***************************************************************************)

Served == cpc \in {"app", "main"}

\* The request's query and thread id as the client sent them.
HasQuery == body.decodable /\ "query" \in DOMAIN body.data
SentQuery == body.data["query"]
SentThread ==
    IF "thread_id" \in DOMAIN body.data THEN body.data["thread_id"]
    ELSE "default_thread"

\* The text an error answer carries.
ErrorText ==
    IF "error" \in DOMAIN response.payload THEN response.payload["error"]
    ELSE response.payload["detail"]

IsErrorPayload == DOMAIN response.payload \in {{"error"}, {"detail"}}

\* C1: a request whose query is missing or empty is answered 400 with an
\* error payload and the agent is not invoked, in both variants.
C1_EmptyQueryIs400 ==
    (Served /\ body.decodable /\ (~HasQuery \/ SentQuery = <<>>)) =>
        /\ response.status = 400
        /\ IsErrorPayload
        /\ agent_calls = <<>>

\* The agent returned a state with a last message.
AgentAnswered == agent_out.kind = "return" /\ agent_out.messages # <<>>
LastContent == agent_out.messages[Len(agent_out.messages)]

\* One call, with the trimmed query as the single user message and the
\* request's thread id in the config.
InvokedOnce ==
    /\ Len(agent_calls) = 1
    /\ agent_calls[1].messages = << <<"user", Trimmed(SentQuery)>> >>
    /\ agent_calls[1].config = [configurable |-> [thread_id |-> SentThread]]

\* C2 as stated: every request with a non-empty query has the agent invoked
\* exactly once (trimmed query, the request's thread id or "default_thread"),
\* and is answered 200 with the last message's content and that thread id.
C2_NonEmptyQueryInvokesAgent ==
    (Served /\ HasQuery /\ SentQuery # <<>>) =>
        /\ InvokedOnce
        /\ AgentAnswered =>
              /\ response.status = 200
              /\ response.payload = [response |-> LastContent,
                                     thread_id |-> SentThread]

\* The queries each handler lets through: app.py tests the query as sent,
\* main.py tests it after trimming.
QueryAccepted ==
    /\ HasQuery
    /\ \/ cpc = "app" /\ SentQuery # <<>>
       \/ cpc = "main" /\ Trimmed(SentQuery) # <<>>

\* C2 amended: for every request whose query the handler accepts, the agent
\* is invoked exactly once as stated, and when it returns a last message the
\* answer is 200 with that thread id and the content (app.py) or the
\* content's str() (main.py).
C2_AcceptedQueryInvokesAgent ==
    (Served /\ QueryAccepted) =>
        /\ InvokedOnce
        /\ AgentAnswered =>
              /\ response.status = 200
              /\ response.payload =
                    [response |-> IF cpc = "main"
                                  THEN [type |-> "str", v |-> str(LastContent)]
                                  ELSE LastContent,
                     thread_id |-> SentThread]

C2_Witness ==
    /\ cpc = "main"
    /\ QueryAccepted
    /\ SentQuery # Trimmed(SentQuery)
    /\ "thread_id" \notin DOMAIN body.data
    /\ AgentAnswered
    /\ response.status = 200
    /\ response.payload["thread_id"] = "default_thread"

\* The handler turned the query down as empty.
RejectedAsEmpty ==
    \/ cpc = "app" /\ body.decodable /\ (~HasQuery \/ SentQuery = <<>>)
    \/ cpc = "main" /\ HasQuery /\ Trimmed(SentQuery) = <<>>

====
